---------------------------- MODULE Spec2Model ----------------------------
(***************************************************************************)
(* Model of CR2026.py: the script that reads the cuts of an election from  *)
(* a CSV file, derives percentage / growth / trend series per party,       *)
(* ranks the parties at the last cut and writes an HTML report.            *)
(*                                                                         *)
(* Floating point values are modelled as extended rationals <<n, d>>:      *)
(*   d > 0   the finite value n/d, in lowest terms                         *)
(*   <<0,0>> not-a-number, <<1,0>> +infinity, <<-1,0>> -infinity           *)
(* Binary rounding of the IEEE doubles is not modelled; NaN and infinity   *)
(* follow IEEE / pandas semantics.                                         *)
(***************************************************************************)
EXTENDS Integers, Sequences, FiniteSets, TLC

VARIABLES
    pc,              \* position of the running script / harness
    csv,             \* the input file: [columns, rows, nonint]
    df,              \* the DataFrame read from the file: [columns, data]
    stats,           \* the DataFrame returned by compute_stats
    img,             \* data drawn by plot_votes_over_time
    popularity_img,  \* data drawn by plot_popularity_trends
    table,           \* result of generate_results_table
    html,            \* result of generate_html
    out,             \* content of OUTPUT_HTML on disk
    err,             \* the exception that ended the run, or "none"
    argv,            \* sys.argv
    public_dir,      \* whether the directory "public" has been created
    trend_value,     \* argument of get_trend_class / get_trend_indicator
    trend_class,     \* result of get_trend_class
    trend_indicator  \* result of get_trend_indicator

vars == <<pc, csv, df, stats, img, popularity_img, table, html, out, err,
          argv, public_dir, trend_value, trend_class, trend_indicator>>

---------------------------------------------------------------------------
(* Program constants *)

REGISTER == 3731788

COLUMNS == <<"timestamp", "ppso", "pln", "cac", "pusc", "fa", "nr", "plp",
             "valid", "null">>

PARTIES == <<"ppso", "pln", "cac", "pusc", "fa", "nr", "plp">>

PARTY_NAMES == [p \in {"ppso", "pln", "cac", "pusc", "fa", "nr", "plp"} |->
                  CASE p = "ppso" -> "PPSO" [] p = "pln" -> "PLN"
                    [] p = "cac" -> "CAC"   [] p = "pusc" -> "PUSC"
                    [] p = "fa" -> "FA"     [] p = "nr" -> "NR"
                    [] p = "plp" -> "PLP"]

PartySet == {PARTIES[i] : i \in 1..Len(PARTIES)}

---------------------------------------------------------------------------
(* Floating point arithmetic *)

NaN == <<0, 0>>
PosInf == <<1, 0>>
NegInf == <<-1, 0>>

Abs(n) == IF n < 0 THEN -n ELSE n

RECURSIVE Gcd(_, _)
Gcd(a, b) == IF b = 0 THEN a ELSE Gcd(b, a % b)

\* n/d in lowest terms, d > 0
Norm(n, d) == LET g == Gcd(Abs(n), d) IN <<n \div g, d \div g>>

FromInt(i) == <<i, 1>>

IsNaN(x) == x = NaN
IsFinite(x) == x[2] > 0

\* int / int, elementwise as pandas divides two integer Series
Div(a, b) ==
    IF b = 0 THEN (IF a = 0 THEN NaN ELSE IF a > 0 THEN PosInf ELSE NegInf)
    ELSE IF b > 0 THEN Norm(a, b) ELSE Norm(-a, -b)

\* float * positive int
Mul(x, k) == IF IsFinite(x) THEN Norm(x[1] * k, x[2]) ELSE x

\* float - float
Sub(x, y) ==
    IF IsNaN(x) \/ IsNaN(y) THEN NaN
    ELSE IF ~IsFinite(x) THEN (IF x = y THEN NaN ELSE x)
    ELSE IF ~IsFinite(y) THEN <<-y[1], 0>>
    ELSE LET g == Gcd(x[2], y[2])
             l == (x[2] \div g) * y[2]
         IN  Norm(x[1] * (l \div x[2]) - y[1] * (l \div y[2]), l)

\* x > y and x < y; every comparison with NaN is false
Gt(x, y) ==
    IF IsNaN(x) \/ IsNaN(y) THEN FALSE
    ELSE IF ~IsFinite(x) THEN x = PosInf /\ y # PosInf
    ELSE IF ~IsFinite(y) THEN y = NegInf
    ELSE x[1] * y[2] > y[1] * x[2]

Lt(x, y) == Gt(y, x)

Ge(x, y) == Gt(x, y) \/ (x = y /\ ~IsNaN(x))

---------------------------------------------------------------------------
(* pandas Series / DataFrame operations used by the script *)

\* Series.diff(): NaN first, then the difference with the previous element
diff(s) == [i \in 1..Len(s) |-> IF i = 1 THEN NaN ELSE Sub(s[i], s[i - 1])]

\* Series.fillna(0)
fillna0(s) == [i \in 1..Len(s) |-> IF IsNaN(s[i]) THEN FromInt(0) ELSE s[i]]

ColIndex(d, name) == CHOOSE j \in 1..Len(d.columns) : d.columns[j] = name

HasCol(d, name) == \E j \in 1..Len(d.columns) : d.columns[j] = name

\* d[name]
Col(d, name) == [i \in 1..Len(d.data) |-> d.data[i][ColIndex(d, name)]]

\* d[name] = s : replaces the column, or appends it when it is new
SetCol(d, name, s) ==
    IF HasCol(d, name)
    THEN [d EXCEPT !.data = [i \in 1..Len(d.data) |->
                               [d.data[i] EXCEPT ![ColIndex(d, name)] = s[i]]]]
    ELSE [columns |-> Append(d.columns, name),
          data |-> [i \in 1..Len(d.data) |-> Append(d.data[i], s[i])]]

EmptyFrame == [columns |-> <<>>, data |-> <<>>]

---------------------------------------------------------------------------
(* compute_stats *)

\* stats = df.copy(): a new frame with the same content; alias tells whether
\* the frame the function goes on to write to is the caller's own object
no_copy(d) == [frame |-> d, alias |-> TRUE]

copy(d) == [frame |-> d, alias |-> FALSE]

PctSeries(s, col) ==
    [i \in 1..Len(s.data) |-> Mul(Div(Col(s, col)[i], Col(s, "valid")[i]), 100)]

\* for col in PARTIES: stats[f"pct_{col}"] = (stats[col] / stats["valid"]) * 100
RECURSIVE AddPct(_, _)
AddPct(s, k) ==
    IF k > Len(PARTIES) THEN s
    ELSE AddPct(SetCol(s, "pct_" \o PARTIES[k], PctSeries(s, PARTIES[k])), k + 1)

\* for col in PARTIES: stats[f"growth_{col}"] = stats[f"pct_{col}"].diff().fillna(0)
RECURSIVE AddGrowth(_, _)
AddGrowth(s, k) ==
    IF k > Len(PARTIES) THEN s
    ELSE AddGrowth(SetCol(s, "growth_" \o PARTIES[k],
                          fillna0(diff(Col(s, "pct_" \o PARTIES[k])))), k + 1)

\* for col in PARTIES: stats[f"trend_{col}"] = stats[f"growth_{col}"].diff().fillna(0)
RECURSIVE AddTrend(_, _)
AddTrend(s, k) ==
    IF k > Len(PARTIES) THEN s
    ELSE AddTrend(SetCol(s, "trend_" \o PARTIES[k],
                         fillna0(diff(Col(s, "growth_" \o PARTIES[k])))), k + 1)

\* ret: the frame returned; arg: the caller's frame once the call is over
compute_stats(d) ==
    LET c  == copy(d)
        s0 == c.frame
        s1 == SetCol(s0, "total_votes",
                     [i \in 1..Len(s0.data) |->
                        Col(s0, "valid")[i] + Col(s0, "null")[i]])
        s  == AddTrend(AddGrowth(AddPct(s1, 1), 1), 1)
    IN  [ret |-> s, arg |-> IF c.alias THEN s ELSE d]

---------------------------------------------------------------------------
(* Trend classification *)

Deadband == <<1, 100>>
NegDeadband == <<-1, 100>>

\* the glyph that starts the string get_trend_indicator returns
get_trend_indicator(t) ==
    IF Gt(t, Deadband) THEN "up-arrow"
    ELSE IF Lt(t, NegDeadband) THEN "down-arrow"
    ELSE "dash"

get_trend_class_inclusive(t) ==
    IF Ge(t, Deadband) THEN "trend-up"
    ELSE IF Ge(NegDeadband, t) THEN "trend-down"
    ELSE "trend-neutral"

get_trend_class(t) ==
    IF Gt(t, Deadband) THEN "trend-up"
    ELSE IF Lt(t, NegDeadband) THEN "trend-down"
    ELSE "trend-neutral"

---------------------------------------------------------------------------
(* generate_results_table *)

\* list.sort(key=lambda x: x[1], reverse=True): stable, descending by votes.
\* Insert e after every element whose key is >= e's key.
SortInsertUnstable(sorted, e) ==
    LET k == Cardinality({j \in 1..Len(sorted) : sorted[j][2] > e[2]})
    IN  SubSeq(sorted, 1, k) \o <<e>> \o SubSeq(sorted, k + 1, Len(sorted))

SortInsert(sorted, e) ==
    LET k == Cardinality({j \in 1..Len(sorted) : sorted[j][2] >= e[2]})
    IN  SubSeq(sorted, 1, k) \o <<e>> \o SubSeq(sorted, k + 1, Len(sorted))

RECURSIVE SortDesc(_)
SortDesc(l) ==
    IF l = <<>> THEN <<>>
    ELSE SortInsert(SortDesc(SubSeq(l, 1, Len(l) - 1)), l[Len(l)])

\* stats.iloc[-1], as a function from column name to value
LastRow(s) == [c \in {s.columns[j] : j \in 1..Len(s.columns)} |->
                 s.data[Len(s.data)][ColIndex(s, c)]]

\* One <tr> of the table: the values the row's cells are formatted from.
TableRow(last, info) ==
    LET p == info[1]
        trend == last["trend_" \o p]
    IN  [party |-> PARTY_NAMES[p], votes |-> info[2], pct |-> info[3],
         trend |-> trend,
         trend_class |-> get_trend_class(trend),
         trend_indicator |-> get_trend_indicator(trend)]

\* raised = "IndexError" when stats.iloc[-1] is out of bounds
generate_results_table(s) ==
    IF Len(s.data) = 0 THEN [raised |-> "IndexError", rows |-> <<>>]
    ELSE LET last == LastRow(s)
             party_info == SortDesc([k \in 1..Len(PARTIES) |->
                              <<PARTIES[k], last[PARTIES[k]],
                                last["pct_" \o PARTIES[k]]>>])
         IN  [raised |-> "none",
              rows |-> [k \in 1..Len(party_info) |->
                          TableRow(last, party_info[k])]]

---------------------------------------------------------------------------
(* Chart functions: the data each one hands to the renderer *)

\* Series.max(): the largest element that is not NaN, NaN when there is none
RECURSIVE SeriesMax(_)
SeriesMax(s) ==
    IF Len(s) = 0 THEN NaN
    ELSE LET m == SeriesMax(SubSeq(s, 1, Len(s) - 1))
             x == s[Len(s)]
         IN  IF IsNaN(x) THEN m ELSE IF IsNaN(m) \/ Gt(x, m) THEN x ELSE m

\* Python's max(a, b): b when b > a, else a
PyMax(a, b) == IF Gt(b, a) THEN b ELSE a

RECURSIVE MaxPct(_, _)
MaxPct(d, k) ==
    IF k = 0 THEN FromInt(0)
    ELSE PyMax(MaxPct(d, k - 1), SeriesMax(PctSeries(d, PARTIES[k])))

\* x[-1] raises IndexError when the frame has no rows
plot_votes_over_time(d) ==
    IF Len(d.data) = 0 THEN [raised |-> "IndexError", chart |-> <<>>]
    ELSE [raised |-> "none",
          chart |-> [lines |-> [p \in PartySet |-> PctSeries(d, p)],
                     last_votes |-> [p \in PartySet |-> Col(d, p)[Len(d.data)]],
                     threshold |-> Ge(MaxPct(d, Len(PARTIES)), FromInt(38))]]

RegisterPct(d, p) ==
    [i \in 1..Len(d.data) |-> Mul(Div(Col(d, p)[i], REGISTER), 100)]

\* trend = percentages.diff().diff(), drawn from index 2 when len(trend) > 2
PopularityTrend(d, p) == diff(diff(RegisterPct(d, p)))

plot_popularity_trends(d) ==
    [lines |-> [p \in PartySet |->
                  IF Len(d.data) > 2
                  THEN SubSeq(PopularityTrend(d, p), 3, Len(d.data))
                  ELSE <<>>]]

plot_votes_per_cut(d) ==
    [lines |-> [p \in PartySet |-> Col(d, p)],
     last_votes |-> [p \in PartySet |-> Col(d, p)[Len(d.data)]]]

\* df.iloc[-1] raises IndexError when the frame has no rows
generate_html(img_base64, popularity_img_base64, table_html, d) ==
    IF Len(d.data) = 0 THEN [raised |-> "IndexError", page |-> <<>>]
    ELSE LET last == LastRow(d)
         IN  [raised |-> "none",
              page |-> [votos_emitidos |-> last["valid"] + last["null"],
                        votos_nulos |-> last["null"],
                        table |-> table_html,
                        votes_per_cut_img |-> plot_votes_per_cut(d),
                        img |-> img_base64,
                        popularity_img |-> popularity_img_base64]]

---------------------------------------------------------------------------
(* Inputs *)

MaxCuts == 3

None == <<>>

SeqsUpTo(S, n) == UNION {[1..k -> S] : k \in 0..n}

\* One row of a well-formed file, in the order of COLUMNS
Cut(ts, nr, plp, valid, null) == <<ts, 0, 0, 0, 0, 0, nr, plp, valid, null>>

\* Cuts of the runs handed to the derivation and ranking functions directly
CoreCuts == {Cut(0, 20, plp, valid, 3) :
               plp \in {0, 10, 20, 40}, valid \in {0, 50, 100}}

CoreFrames == {[columns |-> COLUMNS, data |-> rows] :
                 rows \in SeqsUpTo(CoreCuts, MaxCuts)}

\* Files given to the script
MainCuts == {Cut(ts, 20, plp, valid, 3) :
               ts \in {1, 2}, plp \in {10, 40}, valid \in {0, 100}}

OldColumns == <<"timestamp", "ppso", "pln", "cac", "pusc", "fa", "nr", "plp",
                "blank", "null">>
SwappedColumns == <<"timestamp", "pln", "ppso", "cac", "pusc", "fa", "nr",
                    "plp", "valid", "null">>
ShortColumns == <<"timestamp", "ppso", "pln", "cac", "pusc", "fa",
                  "valid", "null">>

GoodFiles == {[columns |-> COLUMNS, rows |-> rows, nonint |-> {}] :
                rows \in SeqsUpTo(MainCuts, MaxCuts)}

\* a file with a cell that is not an integer
NonIntFiles == {[columns |-> COLUMNS, rows |-> <<Cut(1, 20, 10, 100, 3)>>,
                 nonint |-> {<<1, 2>>}]}

BadSchemaFiles ==
    {[columns |-> c, rows |-> rows, nonint |-> {}] :
       c \in {OldColumns, SwappedColumns},
       rows \in SeqsUpTo({Cut(1, 20, 10, 100, 3), Cut(2, 20, 40, 100, 3)}, 2)}
    \cup {[columns |-> ShortColumns, rows |-> rows, nonint |-> {}] :
            rows \in SeqsUpTo({<<1, 0, 0, 0, 0, 10, 100, 3>>}, 2)}

Files == GoodFiles \cup NonIntFiles \cup BadSchemaFiles

NoFile == [columns |-> <<>>, rows |-> <<>>, nonint |-> {}]

---------------------------------------------------------------------------
(* __main__ *)

Idle ==
    /\ df = EmptyFrame /\ stats = EmptyFrame
    /\ img = None /\ popularity_img = None /\ table = None
    /\ html = None /\ out = None /\ err = "none" /\ public_dir = FALSE
    /\ trend_value = NaN /\ trend_class = "" /\ trend_indicator = ""

Init ==
    /\ pc = "start"
    /\ \/ argv = <<"CR2026.py", "input.csv">> /\ csv \in Files
       \/ argv = <<"CR2026.py">> /\ csv = NoFile
    /\ Idle

TrendIdle == UNCHANGED <<trend_value, trend_class, trend_indicator>>

Fail(e) == pc' = "failed" /\ err' = e

\* if len(sys.argv) != 2: print usage; sys.exit(1)
Usage ==
    /\ pc = "start" /\ Len(argv) # 2
    /\ pc' = "exit" /\ err' = "usage"
    /\ UNCHANGED <<csv, df, stats, img, popularity_img, table, html, out,
                   argv, public_dir>>
    /\ TrendIdle

\* df = pd.read_csv(input_csv, dtype=int)
ReadCsv ==
    /\ pc = "start" /\ Len(argv) = 2
    /\ IF csv.nonint # {}
       THEN Fail("ValueError") /\ df' = df
       ELSE /\ df' = [columns |-> csv.columns, data |-> csv.rows]
            /\ pc' = "check_columns" /\ err' = err
    /\ UNCHANGED <<csv, stats, img, popularity_img, table, html, out,
                   argv, public_dir>>
    /\ TrendIdle

columns_match_unordered(cols) ==
    {cols[j] : j \in 1..Len(cols)} = {COLUMNS[j] : j \in 1..Len(COLUMNS)}

columns_match(cols) == cols = COLUMNS

\* if list(df.columns) != COLUMNS: raise ValueError;  os.makedirs("public")
CheckColumns ==
    /\ pc = "check_columns"
    /\ IF ~columns_match(df.columns)
       THEN Fail("ValueError") /\ public_dir' = public_dir
       ELSE pc' = "compute_stats" /\ err' = err /\ public_dir' = TRUE
    /\ UNCHANGED <<csv, df, stats, img, popularity_img, table, html, out, argv>>
    /\ TrendIdle

\* stats = compute_stats(df)
ComputeStats ==
    /\ pc = "compute_stats"
    /\ stats' = compute_stats(df).ret
    /\ df' = compute_stats(df).arg
    /\ pc' = "plot_votes_over_time"
    /\ UNCHANGED <<csv, img, popularity_img, table, html, out, err, argv,
                   public_dir>>
    /\ TrendIdle

\* img_base64 = plot_votes_over_time(df)
PlotVotesOverTime ==
    /\ pc = "plot_votes_over_time"
    /\ LET r == plot_votes_over_time(df)
       IN  IF r.raised # "none"
           THEN Fail(r.raised) /\ img' = img
           ELSE img' = r.chart /\ pc' = "plot_popularity_trends" /\ err' = err
    /\ UNCHANGED <<csv, df, stats, popularity_img, table, html, out, argv,
                   public_dir>>
    /\ TrendIdle

\* popularity_img_base64 = plot_popularity_trends(df)
PlotPopularityTrends ==
    /\ pc = "plot_popularity_trends"
    /\ popularity_img' = plot_popularity_trends(df)
    /\ pc' = "generate_results_table"
    /\ UNCHANGED <<csv, df, stats, img, table, html, out, err, argv, public_dir>>
    /\ TrendIdle

\* table_html = generate_results_table(stats)
GenerateResultsTable ==
    /\ pc = "generate_results_table"
    /\ LET r == generate_results_table(stats)
       IN  IF r.raised # "none"
           THEN Fail(r.raised) /\ table' = table
           ELSE table' = r.rows /\ pc' = "generate_html" /\ err' = err
    /\ UNCHANGED <<csv, df, stats, img, popularity_img, html, out, argv,
                   public_dir>>
    /\ TrendIdle

\* html = generate_html(img_base64, popularity_img_base64, table_html, df)
GenerateHtml ==
    /\ pc = "generate_html"
    /\ LET r == generate_html(img, popularity_img, table, df)
       IN  IF r.raised # "none"
           THEN Fail(r.raised) /\ html' = html
           ELSE html' = r.page /\ pc' = "write" /\ err' = err
    /\ UNCHANGED <<csv, df, stats, img, popularity_img, table, out, argv,
                   public_dir>>
    /\ TrendIdle

\* with open(OUTPUT_HTML, "w") as f: f.write(html)
WriteOutput ==
    /\ pc = "write"
    /\ out' = html
    /\ pc' = "done"
    /\ UNCHANGED <<csv, df, stats, img, popularity_img, table, html, err, argv,
                   public_dir>>
    /\ TrendIdle

Next ==
    \/ Usage
    \/ ReadCsv
    \/ CheckColumns
    \/ ComputeStats
    \/ PlotVotesOverTime
    \/ PlotPopularityTrends
    \/ GenerateResultsTable
    \/ GenerateHtml
    \/ WriteOutput

Spec == Init /\ [][Next]_vars

---------------------------------------------------------------------------
(* The derivation and the ranking called directly on a Run *)

CoreInit ==
    /\ pc = "core_start"
    /\ argv = <<>> /\ csv = NoFile
    /\ df \in CoreFrames
    /\ stats = EmptyFrame
    /\ img = None /\ popularity_img = None /\ table = None
    /\ html = None /\ out = None /\ err = "none" /\ public_dir = FALSE
    /\ trend_value = NaN /\ trend_class = "" /\ trend_indicator = ""

CoreComputeStats ==
    /\ pc = "core_start"
    /\ stats' = compute_stats(df).ret
    /\ df' = compute_stats(df).arg
    /\ pc' = "core_rank"
    /\ UNCHANGED <<csv, img, popularity_img, table, html, out, err, argv,
                   public_dir>>
    /\ TrendIdle

CoreGenerateResultsTable ==
    /\ pc = "core_rank"
    /\ LET r == generate_results_table(stats)
       IN  /\ table' = r.rows
           /\ err' = r.raised
           /\ pc' = IF r.raised # "none" THEN "core_failed" ELSE "core_done"
    /\ UNCHANGED <<csv, df, stats, img, popularity_img, html, out, argv,
                   public_dir>>
    /\ TrendIdle

CoreNext == CoreComputeStats \/ CoreGenerateResultsTable

CoreSpec == CoreInit /\ [][CoreNext]_vars

---------------------------------------------------------------------------
(* The trend classifiers called directly on a value *)

TrendInputs ==
    {Norm(k, 1000000) :
       k \in (-10100..-9900) \cup (-50..50) \cup (9900..10100)}
    \cup {Norm(k, 100) : k \in -5..5}
    \cup {NaN, PosInf, NegInf}

TrendInit ==
    /\ pc = "trend_start"
    /\ trend_value \in TrendInputs
    /\ trend_class = "" /\ trend_indicator = ""
    /\ argv = <<>> /\ csv = NoFile
    /\ df = EmptyFrame /\ stats = EmptyFrame
    /\ img = None /\ popularity_img = None /\ table = None
    /\ html = None /\ out = None /\ err = "none" /\ public_dir = FALSE

CallGetTrendClass ==
    /\ pc = "trend_start"
    /\ trend_class' = get_trend_class(trend_value)
    /\ pc' = "trend_classified"
    /\ UNCHANGED <<csv, df, stats, img, popularity_img, table, html, out, err,
                   argv, public_dir, trend_value, trend_indicator>>

CallGetTrendIndicator ==
    /\ pc = "trend_classified"
    /\ trend_indicator' = get_trend_indicator(trend_value)
    /\ pc' = "trend_done"
    /\ UNCHANGED <<csv, df, stats, img, popularity_img, table, html, out, err,
                   argv, public_dir, trend_value, trend_class>>

TrendNext == CallGetTrendClass \/ CallGetTrendIndicator

TrendSpec == TrendInit /\ [][TrendNext]_vars

---------------------------------------------------------------------------
(* Properties *)

NCuts == Len(df.data)
Count(p) == Col(df, p)
Valid == Col(df, "valid")
Pct(p) == Col(stats, "pct_" \o p)
Growth(p) == Col(stats, "growth_" \o p)
Trend(p) == Col(stats, "trend_" \o p)
Zero == FromInt(0)

CoreDerived == pc \in {"core_rank", "core_done", "core_failed"}

\* Index i of the claims (counted from 0) is index i + 1 here.

\* C1: no-history policy. In every Run with at least one cut, every party has
\* growth[0] = 0 and trend[0] = 0, and trend[1] = 0 when there are two cuts.
C1_NoHistory ==
    (CoreDerived /\ NCuts >= 1) =>
        \A p \in PartySet :
            /\ Growth(p)[1] = Zero
            /\ Trend(p)[1] = Zero
            /\ NCuts >= 2 => Trend(p)[2] = Zero

\* C2: when every cut has valid > 0, growth is the first difference of the
\* percentage from index 1 on and trend the second difference from index 2 on;
\* counts 10, 20, 40 over a denominator of 100 give percentage 10, 20, 40,
\* growth 0, 10, 20 and trend 0, 0, 10.
C2_Differences ==
    (CoreDerived /\ \A i \in 1..NCuts : Valid[i] > 0) =>
        \A p \in PartySet :
            /\ \A i \in 1..NCuts :
                   Pct(p)[i] = Mul(Div(Count(p)[i], Valid[i]), 100)
            /\ \A i \in 2..NCuts :
                   Growth(p)[i] = Sub(Pct(p)[i], Pct(p)[i - 1])
            /\ \A i \in 3..NCuts :
                   /\ Trend(p)[i] = Sub(Growth(p)[i], Growth(p)[i - 1])
                   /\ Trend(p)[i] = Sub(Sub(Pct(p)[i], Mul(Pct(p)[i - 1], 2)),
                                        Sub(Zero, Pct(p)[i - 2]))
            /\ (Count(p) = <<10, 20, 40>> /\ Valid = <<100, 100, 100>>) =>
                   /\ Pct(p) = <<FromInt(10), FromInt(20), FromInt(40)>>
                   /\ Growth(p) = <<Zero, FromInt(10), FromInt(20)>>
                   /\ Trend(p) = <<Zero, Zero, FromInt(10)>>

PartyIndex(name) ==
    CHOOSE k \in 1..Len(PARTIES) : PARTY_NAMES[PARTIES[k]] = name

\* C3: the rows of the table are a permutation of the parties, in descending
\* order of the count at the last cut, and parties with equal counts keep
\* the order of PARTIES.
C3_Ranking ==
    pc = "core_done" =>
        /\ Len(table) = Len(PARTIES)
        /\ {table[k].party : k \in 1..Len(table)}
               = {PARTY_NAMES[q] : q \in PartySet}
        /\ \A k \in 1..Len(table) :
               table[k].votes = Count(PARTIES[PartyIndex(table[k].party)])[NCuts]
        /\ \A j, k \in 1..Len(table) :
               j < k =>
                   /\ table[j].votes >= table[k].votes
                   /\ table[j].votes = table[k].votes =>
                          PartyIndex(table[j].party) < PartyIndex(table[k].party)

\* two parties tie on a positive count, and a later party outranks earlier ones
C3_Witness ==
    /\ pc = "core_done"
    /\ table[1].party = "NR" /\ table[2].party = "PLP"
    /\ table[1].votes = 20 /\ table[2].votes = 20
    /\ table[3].party = "PPSO" /\ table[4].party = "PLN"

\* the classes of a trend value, stated on the value itself
Rising(t) == t = PosInf \/ (t[2] > 0 /\ 100 * t[1] > t[2])
Falling(t) == t = NegInf \/ (t[2] > 0 /\ 100 * t[1] < -t[2])

\* C4: a trend is rising iff it is > 0.01, falling iff it is < -0.01 and flat
\* otherwise (0.01 and -0.01 are flat); exactly one class is produced, and the
\* glyph of get_trend_indicator matches the class of get_trend_class.
C4_Deadband ==
    /\ pc \in {"trend_classified", "trend_done"} =>
           /\ trend_class \in {"trend-up", "trend-down", "trend-neutral"}
           /\ trend_class = "trend-up" <=> Rising(trend_value)
           /\ trend_class = "trend-down" <=> Falling(trend_value)
           /\ trend_class = "trend-neutral" <=>
                  (~Rising(trend_value) /\ ~Falling(trend_value))
    /\ pc = "trend_done" =>
           /\ trend_indicator = "up-arrow" <=> trend_class = "trend-up"
           /\ trend_indicator = "down-arrow" <=> trend_class = "trend-down"
           /\ trend_indicator = "dash" <=> trend_class = "trend-neutral"

\* the value 0.01 itself has been classified, as flat
C4_Witness ==
    /\ pc = "trend_done"
    /\ trend_value = <<1, 100>>
    /\ trend_class = "trend-neutral" /\ trend_indicator = "dash"

\* C5: a cut k with valid = 0 does not make compute_stats raise, gives
\* not-a-number for the percentage, growth and trend of every party at cut k,
\* and leaves the values of the cuts whose neighbours are defined as they are.
C5_ZeroValid ==
    CoreDerived =>
        \A p \in PartySet :
            /\ err = "none" \/ pc = "core_failed"
            /\ \A k \in 1..NCuts :
                   Valid[k] = 0 =>
                       /\ IsNaN(Pct(p)[k])
                       /\ IsNaN(Growth(p)[k])
                       /\ IsNaN(Trend(p)[k])
            /\ \A i \in 1..NCuts :
                   Valid[i] > 0 =>
                       Pct(p)[i] = Mul(Div(Count(p)[i], Valid[i]), 100)
            /\ \A i \in 2..NCuts :
                   (Valid[i] > 0 /\ Valid[i - 1] > 0) =>
                       Growth(p)[i] = Sub(Pct(p)[i], Pct(p)[i - 1])
            /\ \A i \in 3..NCuts :
                   (Valid[i] > 0 /\ Valid[i - 1] > 0 /\ Valid[i - 2] > 0) =>
                       Trend(p)[i] = Sub(Growth(p)[i], Growth(p)[i - 1])

\* C6: on a Run with zero cuts the ranking completes without error and
\* returns an empty list of rows.
C6_EmptyRun ==
    (NCuts = 0 /\ pc \in {"core_done", "core_failed"}) =>
        /\ pc = "core_done"
        /\ err = "none"
        /\ table = <<>>

Computed ==
    \/ stats # EmptyFrame
    \/ img # None \/ popularity_img # None \/ table # None
    \/ html # None \/ out # None

\* C7: an input whose field names are not COLUMNS fails before compute_stats,
\* the chart functions, generate_results_table and the write of the output:
\* nothing is computed and nothing is written.
C7_SchemaFirst ==
    (Len(argv) = 2 /\ csv.columns # COLUMNS) =>
        /\ pc \in {"start", "check_columns", "failed"}
        /\ pc = "failed" => err = "ValueError"
        /\ ~Computed
        /\ ~public_dir

\* a file with rows and a wrong column order has been rejected
C7_Witness ==
    /\ pc = "failed" /\ err = "ValueError"
    /\ csv.columns = SwappedColumns /\ Len(csv.rows) = 2
    /\ csv.nonint = {}
    /\ ~Computed

DecreasingTimestamp ==
    /\ Len(argv) = 2 /\ csv.columns = COLUMNS /\ csv.nonint = {}
    /\ \E i \in 1..(Len(csv.rows) - 1) : csv.rows[i + 1][1] < csv.rows[i][1]

\* C8: a sequence of cuts in which a timestamp is smaller than the one before
\* it is rejected with an error, and no statistics or report are produced.
C8_DecreasingRejected ==
    DecreasingTimestamp =>
        /\ ~Computed
        /\ pc # "done"
        /\ pc = "failed" => err \in {"ValueError", "DataError"}

Loaded == [columns |-> csv.columns, data |-> csv.rows]

\* C9: compute_stats leaves the Run it is given unchanged (same columns, same
\* values, no derived column), so every later step sees the Run that was
\* loaded; deriving and ranking again from it gives the same series and rows.
C9_RunUnchanged ==
    /\ pc \notin {"start", "exit", "failed"} => df = Loaded
    /\ pc \in {"plot_votes_over_time", "plot_popularity_trends",
               "generate_results_table", "generate_html", "write", "done"} =>
           /\ df.columns = COLUMNS
           /\ compute_stats(df).ret = stats
    /\ pc \in {"generate_html", "write", "done"} =>
           generate_results_table(compute_stats(df).ret).rows = table

\* the whole script has run on three cuts
C9_Witness ==
    /\ pc = "done"
    /\ Len(csv.rows) = 3
    /\ Len(stats.columns) > Len(df.columns)
    /\ out = html

\* C10: the trend series of the trend chart equals trend_<party> of
\* compute_stats from index 2 on, and the trend shown in the table at the last
\* cut is the last value of the party's charted trend series.
C10_SameDenominator ==
    /\ pc \in {"generate_results_table", "generate_html", "write", "done"} =>
           \A p \in PartySet :
               /\ \A i \in 1..NCuts : img.lines[p][i] = Pct(p)[i]
               /\ \A i \in 3..NCuts :
                      popularity_img.lines[p][i - 2] = Trend(p)[i]
    /\ (pc \in {"generate_html", "write", "done"} /\ NCuts >= 3) =>
           \A k \in 1..Len(table) :
               LET p == PARTIES[PartyIndex(table[k].party)]
               IN  table[k].trend = popularity_img.lines[p][NCuts - 2]

============================================================================
